---------------------------- MODULE Spec2Model ----------------------------
(***************************************************************************)
(* A model of rust_russian_wordle (src/src/lib.rs, src/src/main.rs).       *)
(*                                                                         *)
(* Characters are Unicode code points (integers) and strings are           *)
(* sequences of code points, so that the character ranges of the regular   *)
(* expressions and of the SQL text are the ranges of the source.           *)
(***************************************************************************)
EXTENDS Integers, Sequences, FiniteSets, TLC

VARIABLES
    pc,          \* position of the modelled caller
    input,       \* the string handed to a text function
    parsed,      \* result of parse_pattern(input)
    valid,       \* result of is_valid_pattern(input)
    processed,   \* result of process_rejects(input)
    corpus,      \* the rows of the table words
    pattern,     \* the pattern handed to WordleQuery::new
    rejects,     \* the reject string handed to WordleQuery::new
    wordle_query, \* what WordleQuery::new returned
    query,       \* the text build_query returned, as its WHERE conjuncts
    words,       \* what load_words_from_query returned
    patterns,    \* main: the --pattern arguments
    limit_arg,   \* main: the --limit argument, <<>> when absent
    validated_patterns, \* main: the patterns after parse_pattern
    rejects_string,     \* main: extracted and given rejects, joined
    results,     \* main: the running result, None or Some(set)
    loads,       \* main: the calls of load_words_from_query so far
    wordles,     \* main: the ranked and truncated list
    exit_code,   \* main: the status of std::process::exit, -1 while running
    arg_lemma,   \* the lemma handed to calculate_score
    arg_freqs,   \* the ru_letter_freqs handed to calculate_score
    ret_score    \* what calculate_score returned

textData == <<input, parsed, valid, processed>>
textVars == <<pc, textData>>
queryVars == <<corpus, pattern, rejects, wordle_query, query, words>>
mainVars == <<patterns, limit_arg, validated_patterns, rejects_string,
              results, loads, wordles, exit_code>>
scoreVars == <<arg_lemma, arg_freqs, ret_score>>
vars == <<textVars, queryVars, mainVars, scoreVars>>

-----------------------------------------------------------------------------
(* Code points used by the program text.                                   *)

Star == 42
Underscore == 95
Comma == 44
Hyphen == 45
Period == 46
Percent == 37

CyrA == 1072
CyrYa == 1103
CyrIe == 1077
CyrO == 1086
CyrYo == 1105
LatinA == 97
LatinE == 101
LatinO == 111

(* The length the validator and the query demand.                          *)
PatternLength == 5
WordLength == 5

-----------------------------------------------------------------------------
(* Bounds of the model.                                                    *)

MaxPatternInput == 6
MaxRejectInput == 4
MaxQueryRejects == 2
MaxPatterns == 2
MaxLimit == 3

-----------------------------------------------------------------------------
(* char::is_uppercase, char::is_lowercase, char::to_lowercase, restricted  *)
(* to Basic Latin, Latin capital I with dot above (U+0130), the combining  *)
(* marks U+0300..U+036F and the Cyrillic block U+0400..U+045F.             *)

is_uppercase(c) ==
    \/ c >= 65 /\ c <= 90
    \/ c = 304
    \/ c >= 1024 /\ c <= 1071

is_lowercase(c) ==
    \/ c >= 97 /\ c <= 122
    \/ c >= 1072 /\ c <= 1119

to_lowercase(c) ==
    IF c >= 65 /\ c <= 90 THEN <<c + 32>>
    ELSE IF c = 304 THEN <<105, 775>>
    ELSE IF c >= 1024 /\ c <= 1039 THEN <<c + 80>>
    ELSE IF c >= 1040 /\ c <= 1071 THEN <<c + 32>>
    ELSE <<c>>

(* \p{Cyrillic} of the regex crate (Script=Cyrillic), up to U+052F.        *)
IsCyrillicScript(c) ==
    \/ c >= 1024 /\ c <= 1156
    \/ c >= 1159 /\ c <= 1327

(* The class [a-яё] of is_valid_pattern: the range from LATIN SMALL        *)
(* LETTER A (U+0061) to CYRILLIC SMALL LETTER YA (U+044F), and U+0451.     *)
InValidatorClass(c) ==
    \/ c >= LatinA /\ c <= CyrYa
    \/ c = CyrYo

(* Grapheme_Extend characters of the model's alphabet: combining marks.    *)
IsGraphemeExtend(c) == c >= 768 /\ c <= 879

(* UnicodeSegmentation::graphemes(s, true).count(): a cluster starts at    *)
(* the first character and at every character that does not extend.        *)
GraphemeCount(s) ==
    Cardinality({i \in 1..Len(s) : i = 1 \/ ~IsGraphemeExtend(s[i])})

-----------------------------------------------------------------------------
(* Regex::replace_all with the pattern _(class): leftmost, non-overlapping *)
(* matches, scanned from position i; each match is replaced by `with` and  *)
(* its captured letter is collected.                                       *)

InClass(class, c) ==
    IF class = "Cyrillic" THEN IsCyrillicScript(c) ELSE InValidatorClass(c)

RECURSIVE ReplaceMarkers(_, _, _, _)
ReplaceMarkers(s, i, class, with) ==
    IF i > Len(s) THEN [pattern |-> <<>>, rejects |-> <<>>]
    ELSE IF s[i] = Underscore /\ i < Len(s) /\ InClass(class, s[i + 1])
    THEN LET rest == ReplaceMarkers(s, i + 2, class, with)
         IN  [pattern |-> with \o rest.pattern,
              rejects |-> <<s[i + 1]>> \o rest.rejects]
    ELSE LET rest == ReplaceMarkers(s, i + 1, class, with)
         IN  [pattern |-> <<s[i]>> \o rest.pattern,
              rejects |-> rest.rejects]

parse_pattern_deleting(p) == ReplaceMarkers(p, 1, "Cyrillic", <<>>)

parse_pattern(p) == ReplaceMarkers(p, 1, "Cyrillic", <<Star>>)

is_valid_pattern(p) ==
    LET modified_pattern == ReplaceMarkers(p, 1, "a-ya-yo", <<Star>>).pattern
    IN  GraphemeCount(modified_pattern) = PatternLength

-----------------------------------------------------------------------------
(* process_rejects and its two folds.                                      *)

convert_latin_to_cyrillic(c) ==
    IF c = LatinE THEN CyrIe
    ELSE IF c = LatinO THEN CyrO
    ELSE c

convert_ye_to_yo(c) == IF c = CyrYo THEN CyrIe ELSE c

FoldChars(s) ==
    [k \in 1..Len(s) |-> convert_latin_to_cyrillic(convert_ye_to_yo(s[k]))]

(* The iterator chain evaluated lazily, one input character at a time:     *)
(* filter, flat_map(to_lowercase), map, map, collect.                      *)
RECURSIVE RejectsFrom(_, _)
RejectsFrom(s, i) ==
    IF i > Len(s) THEN <<>>
    ELSE IF s[i] = Comma THEN RejectsFrom(s, i + 1)
    ELSE FoldChars(to_lowercase(s[i])) \o RejectsFrom(s, i + 1)

RECURSIVE RejectsFoldBeforeLowercase(_, _)
RejectsFoldBeforeLowercase(s, i) ==
    IF i > Len(s) THEN <<>>
    ELSE IF s[i] = Comma THEN RejectsFoldBeforeLowercase(s, i + 1)
    ELSE to_lowercase(convert_latin_to_cyrillic(convert_ye_to_yo(s[i])))
         \o RejectsFoldBeforeLowercase(s, i + 1)

process_rejects_fold_first(r) == RejectsFoldBeforeLowercase(r, 1)

process_rejects(r) == RejectsFrom(r, 1)

-----------------------------------------------------------------------------
(* Inputs of the text functions.                                           *)

StringsUpTo(chars, n) == UNION {[1..k -> chars] : k \in 0..n}

\* '*', '_', Cyrillic Ж and н, Latin a, Cyrillic ѐ (U+0450)
PatternChars == {Star, Underscore, 1046, 1085, LatinA, 1104}

\* ',', ё, Ё, Latin E and o, Cyrillic д and Я, Latin İ (U+0130)
RejectChars == {Comma, CyrYo, 1025, 69, LatinO, 1076, 1071, 304}

\* The strings of the unit tests of lib.rs and of tests/test_query.rs.
ExampleInputs ==
    { <<95, 1086, 42, 95, 1090, 42, 42, 1040>>,          \* "_о*_т**А"
      <<95, 1086, 42, 95, 1090, 42, 1040>>,              \* "_о*_т*А"
      <<1040, 1041, 1042, 1043, 1044>>,                  \* "АБВГД"
      <<95, 1086, 95, 1090, 42, 42, 42>>,                \* "_о_т***"
      <<95, 1072, 95, 1073, 95, 1092, 95, 1088, 1076, 1090>>, \* "_а_б_ф_рдт"
      <<42, 42, 1048, 42, 1072>>,                        \* "**И*а"
      <<42, 769, 1053, 42, 42, 42>>,                     \* "*" U+0301 "Н***"
      <<1105, 44, 69, 44, 1076, 44, 1071, 44, 79>> }     \* "ё,E,д,Я,O"

TextInputs ==
    StringsUpTo(PatternChars, MaxPatternInput)
        \cup StringsUpTo(RejectChars, MaxRejectInput)
        \cup ExampleInputs

NoResult == [none |-> TRUE]

Some(v) == [some |-> v]

MainIdle ==
    /\ patterns = <<>>
    /\ limit_arg = <<>>
    /\ validated_patterns = <<>>
    /\ rejects_string = <<>>
    /\ results = NoResult
    /\ loads = 0
    /\ wordles = <<>>
    /\ exit_code = -1

ScoreIdle ==
    /\ arg_lemma = <<>>
    /\ arg_freqs = <<>>
    /\ ret_score = NoResult

QueryIdle ==
    /\ corpus = {}
    /\ pattern = <<>>
    /\ rejects = <<>>
    /\ wordle_query = NoResult
    /\ query = <<>>
    /\ words = {}

TextInit ==
    /\ pc = "start"
    /\ input \in TextInputs
    /\ parsed = NoResult
    /\ valid = NoResult
    /\ processed = NoResult
    /\ QueryIdle
    /\ MainIdle
    /\ ScoreIdle

CallParsePattern ==
    /\ pc = "start"
    /\ parsed' = parse_pattern(input)
    /\ pc' = "parsed"
    /\ UNCHANGED <<input, valid, processed, queryVars, mainVars, scoreVars>>

CallIsValidPattern ==
    /\ pc = "start"
    /\ valid' = is_valid_pattern(input)
    /\ pc' = "validated"
    /\ UNCHANGED <<input, parsed, processed, queryVars, mainVars, scoreVars>>

CallProcessRejects ==
    /\ pc = "start"
    /\ processed' = process_rejects(input)
    /\ pc' = "processed"
    /\ UNCHANGED <<input, parsed, valid, queryVars, mainVars, scoreVars>>

TextNext == CallParsePattern \/ CallIsValidPattern \/ CallProcessRejects

SpecText == TextInit /\ [][TextNext]_vars

-----------------------------------------------------------------------------
(* Claims about the text functions, checked under SpecText.                *)

\* A letter of the Cyrillic blocks U+0400..U+052F, of either case.
CyrillicLetter(c) ==
    \/ c >= 1024 /\ c <= 1153
    \/ c >= 1162 /\ c <= 1327

\* The positions where a misplaced-letter marker starts: an underscore
\* immediately followed by a Cyrillic letter.
MarkerStarts(p) ==
    {i \in 1..Len(p) : p[i] = Underscore /\ i < Len(p) /\ CyrillicLetter(p[i + 1])}

Ascending(S) ==
    [k \in 1..Cardinality(S) |->
        CHOOSE x \in S : Cardinality({y \in S : y < x}) = k - 1]

\* p with the two characters of every marker replaced by one '*'.
MarkersStarred(p) ==
    LET kept == Ascending({j \in 1..Len(p) : (j - 1) \notin MarkerStarts(p)})
    IN  [k \in 1..Len(kept) |->
            IF kept[k] \in MarkerStarts(p) THEN Star ELSE p[kept[k]]]

MarkerLetters(p) ==
    LET starts == Ascending(MarkerStarts(p))
    IN  [k \in 1..Len(starts) |-> p[starts[k] + 1]]

\* C5: parse_pattern(p) is p with every marker (an underscore followed by a
\* Cyrillic letter of either case) replaced by one '*', every other character
\* unchanged and in place, together with the marker letters in order of
\* appearance; a marker-free p comes back unchanged with no rejects.
C5_ParsePatternStarsMarkers ==
    pc = "parsed" =>
        /\ parsed.pattern = MarkersStarred(input)
        /\ parsed.rejects = MarkerLetters(input)
        /\ MarkerStarts(input) = {} =>
              parsed = [pattern |-> input, rejects |-> <<>>]

\* "_о*_т*А" has been parsed to "****А" with the rejects о, т.
C5_Witness ==
    /\ pc = "parsed"
    /\ input = <<95, 1086, 42, 95, 1090, 42, 1040>>
    /\ parsed = [pattern |-> <<42, 42, 42, 42, 1040>>, rejects |-> <<1086, 1090>>]

\* C6: is_valid_pattern(p) is true exactly when the string parse_pattern
\* makes of p has 5 letter-cluster units, i.e. the validator recognises the
\* same markers as the normalizer.
C6_ValidatorAgreesWithNormalizer ==
    pc = "validated" =>
        (valid <=> GraphemeCount(parse_pattern(input).pattern) = PatternLength)

\* The three stages of the reject processing, each over the whole string.
WithoutCommas(r) == SelectSeq(r, LAMBDA c : c # Comma)

RECURSIVE Lowercased(_)
Lowercased(s) ==
    IF s = <<>> THEN <<>> ELSE to_lowercase(Head(s)) \o Lowercased(Tail(s))

YoFolded(s) == [k \in 1..Len(s) |-> IF s[k] = CyrYo THEN CyrIe ELSE s[k]]

LatinFolded(s) ==
    [k \in 1..Len(s) |->
        CASE s[k] = LatinE -> CyrIe
          [] s[k] = LatinO -> CyrO
          [] OTHER -> s[k]]

\* C7: process_rejects(r) drops every comma, lowercases each remaining
\* character (expanding multi-character lowercasings), maps ё to е and Latin
\* e, o to Cyrillic е, о, keeping the input order; so its output holds no
\* comma, no uppercase letter, no ё and no Latin e or o.
C7_ProcessRejectsNormalizes ==
    pc = "processed" =>
        /\ processed = LatinFolded(YoFolded(Lowercased(WithoutCommas(input))))
        /\ \A k \in 1..Len(processed) :
              /\ processed[k] \notin {Comma, CyrYo, LatinE, LatinO}
              /\ ~is_uppercase(processed[k])

\* "ё,E,д,Я,O" has been processed to е, е, д, я, о.
C7_Witness ==
    /\ pc = "processed"
    /\ input = <<1105, 44, 69, 44, 1076, 44, 1071, 44, 79>>
    /\ processed = <<1077, 1077, 1076, 1103, 1086>>

-----------------------------------------------------------------------------
(* WordleQuery::new and WordleQuery::build_query.  The SQL text is kept as *)
(* the sequence of its WHERE conjuncts, each [op, pos, text].              *)

QueryErrorMessage == "Pattern must contain exactly 5 Cyrillic (or *) characters."

WordleQuery_new(p, r) ==
    IF ~is_valid_pattern(p)
    THEN [ok |-> FALSE, pattern |-> <<>>, rejects |-> <<>>,
          error |-> QueryErrorMessage]
    ELSE [ok |-> TRUE, pattern |-> p, rejects |-> process_rejects(r),
          error |-> ""]

Clause(op, pos, text) == [op |-> op, pos |-> pos, text |-> text]

\* LENGTH(w.word) = 5 AND w.word GLOB '[а-я]*'
\* AND w.word NOT LIKE '%-%' AND w.word NOT LIKE '%.%'
BaseClauses ==
    << Clause("LENGTH =", WordLength, <<>>),
       Clause("GLOB [lo-hi]*", 0, <<CyrA, CyrYa>>),
       Clause("NOT LIKE %text%", 0, <<Hyphen>>),
       Clause("NOT LIKE %text%", 0, <<Period>>) >>

SlotClausesZeroBased(i, c) ==
    IF c = Star THEN <<>>
    ELSE IF is_uppercase(c)
    THEN << Clause("SUBSTR =", i, to_lowercase(c)) >>
    ELSE IF is_lowercase(c)
    THEN << Clause("LIKE %text%", 0, <<c>>), Clause("SUBSTR !=", i, <<c>>) >>
    ELSE <<>>

\* The match arms for character c at index i of pattern.chars().enumerate().
SlotClauses(i, c) ==
    IF c = Star THEN <<>>
    ELSE IF is_uppercase(c)
    THEN << Clause("SUBSTR =", i + 1, to_lowercase(c)) >>
    ELSE IF is_lowercase(c)
    THEN << Clause("LIKE %text%", 0, <<c>>), Clause("SUBSTR !=", i + 1, <<c>>) >>
    ELSE <<>>

RECURSIVE PatternClauses(_, _)
PatternClauses(p, i) ==
    IF i >= Len(p) THEN <<>>
    ELSE SlotClauses(i, p[i + 1]) \o PatternClauses(p, i + 1)

RejectClausesFirstOnly(rs) ==
    IF rs = <<>> THEN <<>> ELSE << Clause("NOT LIKE %text%", 0, <<rs[1]>>) >>

RejectClauses(rs) ==
    [k \in 1..Len(rs) |-> Clause("NOT LIKE %text%", 0, <<rs[k]>>)]

build_query(self) ==
    BaseClauses \o PatternClauses(self.pattern, 0) \o RejectClauses(self.rejects)

-----------------------------------------------------------------------------
(* load_words_from_query: SQLite's evaluation of the conjuncts on a row.   *)

\* LIKE folds the case of ASCII letters only.
LikeFold(c) == IF c >= 65 /\ c <= 90 THEN c + 32 ELSE c

\* word LIKE '%c%' for one pattern character c: '%' and '_' are wildcards.
SqlLikeContains(word, c) ==
    IF c = Percent THEN TRUE
    ELSE IF c = Underscore THEN Len(word) >= 1
    ELSE \E k \in 1..Len(word) : LikeFold(word[k]) = LikeFold(c)

\* SUBSTR(word, pos, 1)
SqlSubstr1(word, pos) ==
    IF pos >= 1 /\ pos <= Len(word) THEN <<word[pos]>> ELSE <<>>

SqlHolds(clause, word) ==
    CASE clause.op = "LENGTH =" -> Len(word) = clause.pos
      [] clause.op = "GLOB [lo-hi]*" ->
            /\ Len(word) >= 1
            /\ word[1] >= clause.text[1]
            /\ word[1] <= clause.text[2]
      [] clause.op = "LIKE %text%" -> SqlLikeContains(word, clause.text[1])
      [] clause.op = "NOT LIKE %text%" -> ~SqlLikeContains(word, clause.text[1])
      [] clause.op = "SUBSTR =" -> SqlSubstr1(word, clause.pos) = clause.text
      [] clause.op = "SUBSTR !=" -> SqlSubstr1(word, clause.pos) # clause.text

load_words_from_query(q, rows) ==
    {w \in rows : \A k \in 1..Len(q) : SqlHolds(q[k], w)}

-----------------------------------------------------------------------------
(* The corpora and the arguments of the modelled library calls.            *)

\* мирно, минор, слово, морни, ранки (tests/test_query.rs:140)
YellowTestCorpus ==
    { <<1084, 1080, 1088, 1085, 1086>>, <<1084, 1080, 1085, 1086, 1088>>,
      <<1089, 1083, 1086, 1074, 1086>>, <<1084, 1086, 1088, 1085, 1080>>,
      <<1088, 1072, 1085, 1082, 1080>> }

\* мирно, слово, тесто, гром, кубик (tests/test_query.rs:99)
RejectTestCorpus ==
    { <<1084, 1080, 1088, 1085, 1086>>, <<1089, 1083, 1086, 1074, 1086>>,
      <<1090, 1077, 1089, 1090, 1086>>, <<1075, 1088, 1086, 1084>>,
      <<1082, 1091, 1073, 1080, 1082>> }

\* Мирно, Слово, Привет, тест (tests/test_query.rs:16, 57)
OtherTestWords ==
    { <<1052, 1080, 1088, 1085, 1086>>, <<1057, 1083, 1086, 1074, 1086>>,
      <<1055, 1088, 1080, 1074, 1077, 1090>>, <<1090, 1077, 1089, 1090>> }

\* н, о
WordLetters == {1085, 1086}

\* Н, О, '-', '.', ё
OddChars == {1053, 1054, Hyphen, Period, CyrYo}

\* ноонн with one letter replaced by an odd character
OddWords ==
    {[<<1085, 1086, 1086, 1085, 1085>> EXCEPT ![k] = c] :
        k \in 1..WordLength, c \in OddChars}

\* ооннон, нонооо
LongWords ==
    { <<1086, 1086, 1085, 1085, 1086, 1085>>, <<1085, 1086, 1085, 1086, 1086, 1086>> }

Dictionary ==
    UNION { [1..WordLength -> WordLetters],
            [1..(WordLength - 1) -> WordLetters],
            LongWords, OddWords, YellowTestCorpus, RejectTestCorpus, OtherTestWords }

Corpora == {Dictionary, YellowTestCorpus, RejectTestCorpus}

\* '*', '_', н, О
QueryPatternChars == {Star, Underscore, 1085, 1054}

\* Patterns one character shorter than, as long as, and one longer than
\* the demanded length, and the patterns of the tests.
QueryPatterns ==
    UNION {[1..n -> QueryPatternChars] : n \in (PatternLength - 1)..(PatternLength + 1)}
        \cup { <<95, 1085, 95, 1054, 42, 42, 42>>,   \* "_н_О***"
               <<42, 42, 42, 42, 42>>,            \* "*****"
 <<42, 42, 1085, 42, 42>>,          \* "**н**"
               <<42, 1086, 42, 42, 1054>>,        \* "*о**О"
               <<42, 97, 42, 42, 42>>,            \* "*a***", Latin a
               <<42, 769, 1054, 42, 42, 42>>,     \* "*" U+0301 "О***"
               <<42, 1025, 42, 42, 42>>,          \* "*Ё***"
               <<42, 1045, 42, 42, 42>>,          \* "*Е***"
               <<1105, 42, 42, 42, 42>>,          \* "ё****"
               <<1077, 42, 42, 42, 42>> }         \* "е****"

\* к, Latin O
QueryRejectChars == {1082, 79}

QueryRejects ==
    StringsUpTo(QueryRejectChars, MaxQueryRejects)
        \cup { <<1086, 44, 1077>>,                \* "о,е"
               <<69, 111, 65, 66, 67, 1105>> }    \* "EoABCё"

QueryInit ==
    /\ pc = "start"
    /\ corpus \in Corpora
    /\ pattern \in QueryPatterns
    /\ rejects \in QueryRejects
    /\ wordle_query = NoResult
    /\ query = <<>>
    /\ words = {}
    /\ input = <<>>
    /\ parsed = NoResult
    /\ valid = NoResult
    /\ processed = NoResult
    /\ MainIdle
    /\ ScoreIdle

New ==
    /\ pc = "start"
    /\ wordle_query' = WordleQuery_new(pattern, rejects)
    /\ pc' = IF wordle_query'.ok THEN "constructed" ELSE "error"
    /\ UNCHANGED <<corpus, pattern, rejects, query, words, textData, mainVars, scoreVars>>

BuildQuery ==
    /\ pc = "constructed"
    /\ query' = build_query(wordle_query)
    /\ pc' = "built"
    /\ UNCHANGED <<corpus, pattern, rejects, wordle_query, words, textData, mainVars, scoreVars>>

LoadWords ==
    /\ pc = "built"
    /\ words' = load_words_from_query(query, corpus)
    /\ pc' = "loaded"
    /\ UNCHANGED <<corpus, pattern, rejects, wordle_query, query, textData, mainVars, scoreVars>>

QueryNext == New \/ BuildQuery \/ LoadWords

SpecQuery == QueryInit /\ [][QueryNext]_vars

-----------------------------------------------------------------------------
(* Claims about the filter, checked under SpecQuery.                       *)

Contains(w, c) == \E k \in 1..Len(w) : w[k] = c

LetterAt(w, i, c) == i >= 1 /\ i <= Len(w) /\ w[i] = c

\* A word of five lowercase Cyrillic letters а..я.
LowercaseWord(w) ==
    /\ Len(w) = WordLength
    /\ \A k \in 1..Len(w) : w[k] >= CyrA /\ w[k] <= CyrYa

\* What slot j of pattern p demands of word w.
SlotMet(p, j, w) ==
    /\ is_uppercase(p[j]) => SqlSubstr1(w, j) = to_lowercase(p[j])
    /\ is_lowercase(p[j]) => Contains(w, p[j]) /\ ~LetterAt(w, j, p[j])

NoRejectIn(rs, w) == \A k \in 1..Len(rs) : ~Contains(w, rs[k])

\* C1: when the pattern of a WordleQuery has a lowercase letter L at slot i,
\* every selected word contains L and does not have L at position i, and
\* every corpus word of five lowercase letters that contains L, does not
\* have L at position i and meets the other slots and the rejects is
\* selected.
C1_PresentLetterFilter ==
    pc = "loaded" =>
        \A i \in 1..Len(wordle_query.pattern) :
            LET p == wordle_query.pattern
                L == p[i]
            IN  is_lowercase(L) =>
                  /\ \A w \in words : Contains(w, L) /\ ~LetterAt(w, i, L)
                  /\ \A w \in corpus :
                        ( /\ LowercaseWord(w)
                          /\ Contains(w, L)
                          /\ ~LetterAt(w, i, L)
                          /\ \A j \in 1..Len(p) : j # i => SlotMet(p, j, w)
                          /\ NoRejectIn(process_rejects(rejects), w) )
                        => w \in words

\* "**н**" over {мирно, минор, слово, морни, ранки} selected {мирно, морни}.
C1_Witness ==
    /\ pc = "loaded"
    /\ corpus = YellowTestCorpus
    /\ pattern = <<42, 42, 1085, 42, 42>>
    /\ rejects = <<>>
    /\ words = { <<1084, 1080, 1088, 1085, 1086>>, <<1084, 1086, 1088, 1085, 1080>> }

\* The slots of the canonical pattern: the letter-cluster units of the
\* pattern after the normalizer's substitution, each by its first character.
CanonicalSlots(p) ==
    LET canon == parse_pattern(p).pattern
        starts == Ascending({k \in 1..Len(canon) :
                                k = 1 \/ ~IsGraphemeExtend(canon[k])})
    IN  [k \in 1..Len(starts) |-> canon[starts[k]]]

\* C2: when the i-th canonical slot of the pattern is an uppercase letter L,
\* every selected word has the lowercase form of L at position i, the slot's
\* position in the five-slot canonical pattern.
C2_ConfirmedLetterAtCanonicalSlot ==
    pc = "loaded" =>
        LET slots == CanonicalSlots(wordle_query.pattern)
        IN  \A i \in 1..Len(slots) :
                is_uppercase(slots[i]) =>
                    \A w \in words : SqlSubstr1(w, i) = to_lowercase(slots[i])

\* C3: no selected word contains a letter of process_rejects(R), and with
\* the all-wildcard pattern every corpus word of five lowercase letters
\* that contains none of those letters is selected.
C3_RejectFilter ==
    pc = "loaded" =>
        /\ \A w \in words : NoRejectIn(process_rejects(rejects), w)
        /\ (\A k \in 1..Len(pattern) : pattern[k] = Star) =>
              \A w \in corpus :
                  LowercaseWord(w) /\ NoRejectIn(process_rejects(rejects), w)
                      => w \in words

\* "*****" with the rejects "о,е" over {мирно, слово, тесто, гром, кубик}
\* selected {кубик}.
C3_Witness ==
    /\ pc = "loaded"
    /\ corpus = RejectTestCorpus
    /\ pattern = <<42, 42, 42, 42, 42>>
    /\ rejects = <<1086, 44, 1077>>
    /\ words = { <<1082, 1091, 1073, 1080, 1082>> }

\* C4: every selected word consists of lowercase Cyrillic letters at all
\* five positions.
C4_SelectedWordsAllLowercase ==
    pc = "loaded" => \A w \in words : LowercaseWord(w)

\* No word of the corpus holds ё or Ё.
YoFree(rows) == \A w \in rows : ~Contains(w, CyrYo) /\ ~Contains(w, 1025)

\* The pattern with each confirmed Ё replaced by Е and each present ё by е;
\* the letter of a marker (after '_') is left as it is.
FoldYoInPattern(p) ==
    [k \in 1..Len(p) |->
        IF k > 1 /\ p[k - 1] = Underscore THEN p[k]
        ELSE IF p[k] = 1025 THEN 1045
        ELSE IF p[k] = CyrYo THEN CyrIe
        ELSE p[k]]

\* C13: the fold of ё to е reaches the pattern letters: over a corpus
\* without ё, a pattern and the same pattern with confirmed Ё replaced by Е
\* and present ё replaced by е select exactly the same words.
C13_YoFoldAppliesToPatternLetters ==
    (pc = "loaded" /\ YoFree(corpus)) =>
        words = load_words_from_query(
                    build_query(WordleQuery_new(FoldYoInPattern(pattern), rejects)),
                    corpus)

\* A slot of a pattern constraint: wildcard, uppercase or lowercase letter.
IsSlot(c) == c = Star \/ is_uppercase(c) \/ is_lowercase(c)

\* C14: WordleQuery::new(p, r) returns either the QueryError with the
\* exactly-5-characters message, which it does for every p that is too
\* short or too long, or a WordleQuery whose stored pattern has exactly 5
\* slots, each a wildcard, an uppercase or a lowercase letter, and holds no
\* marker.
C14_StoredPatternHasFiveSlots ==
    pc # "start" =>
        /\ ~wordle_query.ok => wordle_query.error = QueryErrorMessage
        /\ Len(CanonicalSlots(pattern)) # PatternLength => ~wordle_query.ok
        /\ wordle_query.ok =>
              /\ Len(wordle_query.pattern) = PatternLength
              /\ \A k \in 1..Len(wordle_query.pattern) :
                    IsSlot(wordle_query.pattern[k])
              /\ MarkerStarts(wordle_query.pattern) = {}

-----------------------------------------------------------------------------
(* Wordle: replace_yo, init_letter_freqs, calculate_score, new.            *)
(*                                                                         *)
(* A score is kept exactly: [num, scale] stands for num / 100^scale, num a *)
(* little-endian sequence of base-10000 digits.  Weights are in            *)
(* hundredths.  The source multiplies in f64; scores that are equal here   *)
(* are ordered either way.                                                 *)

replace_yo(lemma) ==
    [k \in 1..Len(lemma) |-> IF lemma[k] = CyrYo THEN CyrIe ELSE lemma[k]]

init_letter_freqs ==
    (1086 :> 1097) @@ (1077 :> 845) @@ (1072 :> 801) @@ (1080 :> 735)
        @@ (1085 :> 670) @@ (1090 :> 626) @@ (1089 :> 547) @@ (1083 :> 497)
        @@ (1074 :> 453) @@ (1088 :> 440) @@ (1082 :> 349) @@ (1084 :> 321)
        @@ (1076 :> 298) @@ (1087 :> 281) @@ (1099 :> 210) @@ (1091 :> 208)
        @@ (1073 :> 192) @@ (1103 :> 179) @@ (1100 :> 174) @@ (1075 :> 170)
        @@ (1079 :> 165) @@ (1095 :> 144) @@ (1081 :> 121) @@ (1078 :> 101)
        @@ (1093 :> 95) @@ (1096 :> 72) @@ (1102 :> 49) @@ (1094 :> 48)
        @@ (1101 :> 32) @@ (1097 :> 31) @@ (1092 :> 26) @@ (1098 :> 4)

RECURSIVE MulDigits(_, _, _)
MulDigits(num, m, carry) ==
    IF num = <<>>
    THEN IF carry = 0 THEN <<>>
         ELSE <<carry % 10000>> \o MulDigits(<<>>, m, carry \div 10000)
    ELSE LET v == Head(num) * m + carry
         IN  <<v % 10000>> \o MulDigits(Tail(num), m, v \div 10000)

ScoreTimes(score, weight) ==
    [num |-> MulDigits(score.num, weight, 0), scale |-> score.scale + 1]

ScoreOne == [num |-> <<1>>, scale |-> 0]

RECURSIVE ScoreLoop(_, _, _, _)
ScoreLoop(lemma, i, ru_letter_freqs, score) ==
    IF i > Len(lemma) THEN score
    ELSE IF lemma[i] \in DOMAIN ru_letter_freqs
    THEN ScoreLoop(lemma, i + 1, ru_letter_freqs,
                   ScoreTimes(score, ru_letter_freqs[lemma[i]]))
    ELSE score

\* The loop with `continue` where the source has `break`.
RECURSIVE ScoreLoopSkipping(_, _, _, _)
ScoreLoopSkipping(lemma, i, ru_letter_freqs, score) ==
    IF i > Len(lemma) THEN score
    ELSE ScoreLoopSkipping(lemma, i + 1, ru_letter_freqs,
             IF lemma[i] \in DOMAIN ru_letter_freqs
             THEN ScoreTimes(score, ru_letter_freqs[lemma[i]])
             ELSE score)

calculate_score_skipping(lemma, ru_letter_freqs) ==
    ScoreLoopSkipping(lemma, 1, ru_letter_freqs, ScoreOne)

calculate_score(lemma, ru_letter_freqs) ==
    ScoreLoop(lemma, 1, ru_letter_freqs, ScoreOne)

Wordle_new(lemma) ==
    LET folded == replace_yo(lemma)
    IN  [lemma |-> folded, score |-> calculate_score(folded, init_letter_freqs)]

RECURSIVE ScaledBy(_, _)
ScaledBy(num, k) == IF k = 0 THEN num ELSE ScaledBy(MulDigits(num, 100, 0), k - 1)

RECURSIVE DigitsLeq(_, _)
DigitsLeq(a, b) ==
    IF Len(a) # Len(b) THEN Len(a) < Len(b)
    ELSE IF a = <<>> THEN TRUE
    ELSE IF a[Len(a)] # b[Len(b)] THEN a[Len(a)] < b[Len(b)]
    ELSE DigitsLeq(SubSeq(a, 1, Len(a) - 1), SubSeq(b, 1, Len(b) - 1))

\* a <= b as numbers (partial_cmp of the two scores)
ScoreLeq(a, b) ==
    DigitsLeq(ScaledBy(a.num, b.scale), ScaledBy(b.num, a.scale))

-----------------------------------------------------------------------------
(* Calls of calculate_score on a lemma and a frequency table.              *)

MaxLemma == 4

\* п, р, и
ScoreLetters == {1087, 1088, 1080}

\* 0.5, 1.0, 2.5 and 10.97, in hundredths
Weights == {50, 100, 250, 1097}

\* "привет" of tests/test_utility.rs:13
TestLemma == <<1087, 1088, 1080, 1074, 1077, 1090>>

\* the table of tests/test_utility.rs:14-20: the six letters, each 1.0
TestFreqs == [c \in {1087, 1088, 1080, 1074, 1077, 1090} |-> 100]

Lemmas == StringsUpTo(ScoreLetters, MaxLemma) \cup {TestLemma}

FreqTables ==
    UNION {[D -> Weights] : D \in SUBSET ScoreLetters}
        \cup {TestFreqs, init_letter_freqs}

ScoreInit ==
    /\ pc = "start"
    /\ arg_lemma \in Lemmas
    /\ arg_freqs \in FreqTables
    /\ ret_score = NoResult
    /\ input = <<>>
    /\ parsed = NoResult
    /\ valid = NoResult
    /\ processed = NoResult
    /\ QueryIdle
    /\ MainIdle

CallCalculateScore ==
    /\ pc = "start"
    /\ ret_score' = Some(calculate_score(arg_lemma, arg_freqs))
    /\ pc' = "scored"
    /\ UNCHANGED <<arg_lemma, arg_freqs, textData, queryVars, mainVars>>

ScoreNext == CallCalculateScore

SpecScore == ScoreInit /\ [][ScoreNext]_vars

-----------------------------------------------------------------------------
(* Claims about calculate_score, checked under SpecScore.                  *)

\* the length of the longest prefix of w whose letters are all in table
KnownPrefix(w, table) ==
    CHOOSE k \in 0..Len(w) :
        /\ \A j \in 1..k : w[j] \in DOMAIN table
        /\ k < Len(w) => w[k + 1] \notin DOMAIN table

\* the product of the weights of the first k letters of w
RECURSIVE WeightProduct(_, _, _)
WeightProduct(w, k, table) ==
    IF k = 0 THEN ScoreOne
    ELSE ScoreTimes(WeightProduct(w, k - 1, table), table[w[k]])

SameScore(a, b) == ScoreLeq(a, b) /\ ScoreLeq(b, a)

\* C12: calculate_score returns the product of the weights of the letters of
\* the longest prefix of the word that lies in the table, 1.0 when that
\* prefix is empty; what follows the first absent letter changes nothing,
\* and a word whose letters all weigh 1 scores exactly 1.
C12_ScoreIsProductOfKnownPrefix ==
    pc = "scored" =>
        LET k == KnownPrefix(arg_lemma, arg_freqs)
        IN  /\ SameScore(ret_score.some, WeightProduct(arg_lemma, k, arg_freqs))
            /\ k = 0 => SameScore(ret_score.some, ScoreOne)
            /\ SameScore(ret_score.some,
                         calculate_score(SubSeq(arg_lemma, 1, k), arg_freqs))
            /\ (\A j \in 1..Len(arg_lemma) :
                    arg_lemma[j] \in DOMAIN arg_freqs /\ arg_freqs[arg_lemma[j]] = 100)
                  => SameScore(ret_score.some, ScoreOne)

\* A word was scored whose second letter is absent from the table while a
\* later letter is present with a weight other than 1.
C12_Witness ==
    /\ pc = "scored"
    /\ KnownPrefix(arg_lemma, arg_freqs) = 1
    /\ \E j \in 3..Len(arg_lemma) :
          arg_lemma[j] \in DOMAIN arg_freqs /\ arg_freqs[arg_lemma[j]] # 100
    /\ ~SameScore(ret_score.some, ScoreOne)

-----------------------------------------------------------------------------
(* main, from the validation of the patterns to the ranked list.           *)

DefaultLimit == 10

Limit(arg) == IF arg = <<>> THEN DefaultLimit ELSE arg[1]

\* all_rejects after the loop over the patterns from index i on
RECURSIVE ExtractedRejects(_, _)
ExtractedRejects(ps, i) ==
    IF i > Len(ps) THEN <<>>
    ELSE parse_pattern(ps[i]).rejects \o ExtractedRejects(ps, i + 1)

ResultsUnion(existing_results, ws) == existing_results \cup ws

\* existing_results.intersection(&words).cloned().collect()
ResultsIntersection(existing_results, ws) == existing_results \cap ws

\* words.into_iter().map(Wordle::new).collect() in any iteration order of
\* the HashSet, then the stable sort_by descending score: every
\* non-increasing arrangement of the entries.
RECURSIVE SortedWordles(_)
SortedWordles(ws) ==
    IF ws = {} THEN {<<>>}
    ELSE LET top == {w \in ws : \A v \in ws :
                        ScoreLeq(Wordle_new(v).score, Wordle_new(w).score)}
         IN  UNION {{<<Wordle_new(w)>> \o t : t \in SortedWordles(ws \ {w})} :
                        w \in top}

TruncatedAlways(list, limit) ==
    IF Len(list) > limit THEN SubSeq(list, 1, limit) ELSE list

\* if limit > 0 && wordles.len() > limit { wordles.truncate(limit) }
Truncated(list, limit) ==
    IF limit > 0 /\ Len(list) > limit THEN SubSeq(list, 1, limit) ELSE list

\* The 15 words of tests/test_query.rs:183
LimitTestCorpus ==
    { <<1084, 1080, 1088, 1085, 1086>>, <<1089, 1083, 1086, 1074, 1086>>,
      <<1087, 1103, 1090, 1100, 1102>>, <<1080, 1075, 1088, 1086, 1082>>,
      <<1096, 1072, 1093, 1080>>, <<1076, 1086, 1084, 1080, 1082>>,
      <<1091, 1083, 1080, 1094, 1072>>, <<1075, 1086, 1088, 1099>>,
      <<1082, 1085, 1080, 1075, 1072>>, <<1088, 1099, 1073, 1072, 1082>>,
      <<1094, 1074, 1077, 1090, 1099>>, <<1087, 1086, 1095, 1090, 1072>>,
      <<1082, 1072, 1088, 1090, 1072>>, <<1089, 1085, 1077, 1075, 1091>>,
      <<1087, 1090, 1080, 1094, 1099>> }

\* мёдик, медик, мИрно, мирно, минор
MixedCorpus ==
    { <<1084, 1105, 1076, 1080, 1082>>, <<1084, 1077, 1076, 1080, 1082>>, <<1084, 1048, 1088, 1085, 1086>>, <<1084, 1080, 1088, 1085, 1086>>, <<1084, 1080, 1085, 1086, 1088>> }

MainCorpora == {YellowTestCorpus, RejectTestCorpus, LimitTestCorpus, MixedCorpus}

\* "*****", "**н**", "М****", "****о", "_к****", "_ѐ***" (U+0450), "****"
MainPatterns ==
    { <<42, 42, 42, 42, 42>>,
      <<42, 42, 1085, 42, 42>>,
      <<1052, 42, 42, 42, 42>>,
      <<42, 42, 42, 42, 1086>>,
      <<95, 1082, 42, 42, 42, 42>>,
      <<95, 1104, 42, 42, 42>>,
      <<42, 42, 42, 42>> }

\* "", "о,е"
MainRejects == { <<>>, <<1086, 44, 1077>> }

MainInit ==
    /\ pc = "validate"
    /\ patterns \in UNION {[1..n -> MainPatterns] : n \in 1..MaxPatterns}
    /\ rejects \in MainRejects
    /\ limit_arg \in {<<>>} \cup {<<n>> : n \in 0..MaxLimit}
    /\ corpus \in MainCorpora
    /\ validated_patterns = <<>>
    /\ rejects_string = <<>>
    /\ results = NoResult
    /\ loads = 0
    /\ wordles = <<>>
    /\ exit_code = -1
    /\ pattern = <<>>
    /\ wordle_query = NoResult
    /\ query = <<>>
    /\ words = {}
    /\ input = <<>>
    /\ parsed = NoResult
    /\ valid = NoResult
    /\ processed = NoResult
    /\ ScoreIdle

\* main.rs:153-165: every pattern is checked, then exit(1) if one failed
ValidatePatterns ==
    /\ pc = "validate"
    /\ IF \E k \in 1..Len(patterns) : ~is_valid_pattern(patterns[k])
       THEN pc' = "exit" /\ exit_code' = 1
       ELSE pc' = "parse" /\ UNCHANGED exit_code
    /\ UNCHANGED <<textData, queryVars, patterns, limit_arg, validated_patterns,
                   rejects_string, results, loads, wordles, scoreVars>>

\* main.rs:167-183
ParsePatterns ==
    /\ pc = "parse"
    /\ validated_patterns' =
          [k \in 1..Len(patterns) |-> parse_pattern(patterns[k]).pattern]
    /\ rejects_string' = ExtractedRejects(patterns, 1) \o rejects
    /\ results' = NoResult
    /\ pc' = "query"
    /\ UNCHANGED <<textData, queryVars, patterns, limit_arg, loads, wordles,
                   exit_code, scoreVars>>

\* main.rs:185-205: one iteration of the loop over validated_patterns
QueryPattern ==
    /\ pc = "query"
    /\ validated_patterns # <<>>
    /\ pattern' = Head(validated_patterns)
    /\ validated_patterns' = Tail(validated_patterns)
    /\ wordle_query' = WordleQuery_new(pattern', rejects_string)
    /\ IF wordle_query'.ok
       THEN /\ query' = build_query(wordle_query')
            /\ words' = load_words_from_query(query', corpus)
            /\ loads' = loads + 1
            /\ results' = IF results = NoResult THEN Some(words')
                          ELSE Some(ResultsIntersection(results.some, words'))
            /\ pc' = IF results'.some = {} \/ validated_patterns' = <<>>
                     THEN "rank" ELSE "query"
            /\ UNCHANGED exit_code
       ELSE /\ pc' = "exit"
            /\ exit_code' = 1
            /\ UNCHANGED <<query, words, loads, results>>
    /\ UNCHANGED <<textData, corpus, rejects, patterns, limit_arg,
                   rejects_string, wordles, scoreVars>>

\* main.rs:207-217
Rank ==
    /\ pc = "rank"
    /\ \E sorted \in SortedWordles(IF results = NoResult THEN {} ELSE results.some) :
          wordles' = Truncated(sorted, Limit(limit_arg))
    /\ pc' = "done"
    /\ exit_code' = 0
    /\ UNCHANGED <<textData, queryVars, patterns, limit_arg, validated_patterns,
                   rejects_string, results, loads, scoreVars>>

MainNext == ValidatePatterns \/ ParsePatterns \/ QueryPattern \/ Rank

SpecMain == MainInit /\ [][MainNext]_vars

-----------------------------------------------------------------------------
(* Claims about the pipeline of main, checked under SpecMain.              *)

\* What the k-th pattern selects from the corpus on its own.
IndependentResult(k) ==
    load_words_from_query(
        build_query(WordleQuery_new(parse_pattern(patterns[k]).pattern,
                                    rejects_string)),
        corpus)

\* The corpus words that every one of the first k patterns selects alone.
IntersectionOfFirst(k) ==
    UNION { {w \in corpus : \A j \in 1..k : w \in alone[j]} :
                alone \in {[j \in 1..k |-> IndependentResult(j)]} }

\* C8: after the k-th pattern has been processed the running result is the
\* intersection of the first k patterns' independent results; once the
\* running result is empty no further pattern is queried and the final
\* result is empty.
C8_IntersectionLaw ==
    pc \in {"query", "rank", "done", "exit"} =>
        /\ loads = 0 => results = NoResult
        /\ loads >= 1 => results = Some(IntersectionOfFirst(loads))
        /\ \A k \in 1..(loads - 1) : IntersectionOfFirst(k) # {}
        /\ (loads >= 1 /\ results.some = {}) => pc # "query"
        /\ (pc = "done" /\ loads >= 1 /\ results.some = {}) => wordles = <<>>

\* Two patterns have been queried and the result is smaller than what either
\* selects alone.
C8_Witness ==
    /\ pc = "done"
    /\ loads = 2
    /\ results.some # {}
    /\ results.some # IndependentResult(1)
    /\ results.some # IndependentResult(2)

\* C9: an invocation that ends with a pattern-validation error has executed
\* no corpus query before it.
C9_ValidationErrorBeforeAnyQuery ==
    exit_code = 1 => loads = 0

Candidates == IF results = NoResult THEN {} ELSE results.some

CandidateCount(entry) == Cardinality({w \in Candidates : Wordle_new(w) = entry})

KeptCount(entry) == Cardinality({i \in 1..Len(wordles) : wordles[i] = entry})

Dropped == {e \in {Wordle_new(w) : w \in Candidates} : KeptCount(e) < CandidateCount(e)}

\* C10: with an explicit limit L, L = 0 keeps all candidates, 0 < L < n keeps
\* exactly L entries each scored at least as high as every dropped one,
\* L >= n drops nothing, and the output is in non-increasing score order.
C10_LimitKeepsHighestScores ==
    (pc = "done" /\ limit_arg # <<>>) =>
        LET L == limit_arg[1]
            n == Cardinality(Candidates)
        IN  /\ \A i \in 1..Len(wordles) :
                  KeptCount(wordles[i]) <= CandidateCount(wordles[i])
            /\ (L = 0 \/ L >= n) => Len(wordles) = n /\ Dropped = {}
            /\ (0 < L /\ L < n) =>
                  /\ Len(wordles) = L
                  /\ \A i \in 1..Len(wordles) : \A e \in Dropped :
                        ScoreLeq(e.score, wordles[i].score)
            /\ \A i \in 1..(Len(wordles) - 1) :
                  ScoreLeq(wordles[i + 1].score, wordles[i].score)

\* A limit of 2 has cut a longer candidate list to two entries.
C10_Witness ==
    /\ pc = "done"
    /\ limit_arg = <<2>>
    /\ Cardinality(Candidates) > 2
    /\ Len(wordles) = 2
    /\ Dropped # {}

\* C11: when no limit is supplied the ranked list holds every candidate of
\* the final result set, as it does with limit 0: nothing is truncated.
C11_AbsentLimitKeepsEverything ==
    (pc = "done" /\ limit_arg = <<>>) =>
        /\ Len(wordles) = Cardinality(Candidates)
        /\ Dropped = {}
        /\ wordles \in {Truncated(sorted, 0) : sorted \in SortedWordles(Candidates)}

=============================================================================
